---------------------------- MODULE Spec2Model ----------------------------
(***************************************************************************)
(* py-lsm: a single-node LSM key-value engine.                             *)
(*                                                                         *)
(*   wal.py          WAL          append / replay / clear / close          *)
(*   memtable.py     MemTable     set / get / clear / get_sorted_items     *)
(*   bloom_filter.py BloomFilter  add / not_contains                       *)
(*   sstable/        SSTableWriter.write, SSTableReader.__init__ / get     *)
(*   lsm_engine.py   LSMEngine    __init__ / set / get / flush             *)
(*                                                                         *)
(* A Python str is a sequence of code points, a bytes object a sequence of *)
(* numbers in 0..255.  Files are byte sequences.                           *)
(***************************************************************************)
EXTENDS Integers, Sequences, FiniteSets, TLC

VARIABLES
    wal,        \* content of wal_dir/wal.bin, a byte sequence
    walOpen,    \* whether WAL._file is an open handle
    mem,        \* MemTable._data: key -> value, None where the key is absent
    disk,       \* the storage directory: timestamp -> file pair, NoFile where absent
    cache,      \* LSMEngine.index_cache: the timestamps that have a reader
    clock,      \* time.time() in microseconds, as the next flush reads it
    capacity,   \* LSMEngine.capacity
    ref,        \* ghost: key -> the value of the most recent set, None if never set
    sets,       \* ghost: the number of set calls so far
    pc,         \* position inside the operation in progress, "idle" between operations
    arg,        \* the (key, value) of the set in progress
    ret,        \* what the last completed operation returned or raised
    hist,       \* ghost: the pairs appended to the log since it was last empty
    dmg,        \* ghost: the damage done to the log file, NoDamage if none
    bloom,      \* a BloomFilter on its own: the arguments of its construction, the
                \* object if there is one, and (ghost) the keys added to it
    closes,     \* ghost: the close calls on the log's handle since it was opened
    sparsity_index, \* LSMEngine.sparsity_index, SSTableWriter.sparsity_index
    opens,      \* ghost: the number of log records at each opening after a crash
    db_folder,  \* LSMEngine.db_folder: the storage directory of the engine
    elsewhere   \* the files of the other storage directory

vars == <<wal, walOpen, mem, disk, cache, clock, capacity, ref, sets, pc, arg, ret, hist, dmg, bloom,
          closes, sparsity_index, opens, db_folder, elsewhere>>

(* None and the exceptions are values no str or bytes object equals.       *)
None == <<-1>>

-----------------------------------------------------------------------------
(* Bounds of the model.                                                    *)

MaxWalRecords == 3
MaxSets == 3
MaxFlushes == 2
MaxCloses == 2
MaxCrashes == 2

-----------------------------------------------------------------------------
(* Inputs: the strings the model draws keys and values from.               *)
(*   keys   "a", "b", "e-acute" (two bytes in UTF-8)                       *)
(*   values "", "1", "2"                                                   *)
(* The engine is driven with the pairs of Inputs: "a" takes every value,   *)
(* the second key one value.                                               *)

Keys == {<<97>>, <<98>>, <<233>>}
Values == {<<>>, <<49>>, <<50>>}
Inputs == {<<<<97>>, <<>>>>, <<<<97>>, <<49>>>>, <<<<97>>, <<50>>>>, <<<<233>>, <<49>>>>}

(* The engine's configuration: memtable capacities an engine is opened     *)
(* with, and the writer's sparsity.                                        *)
Capacities == {2, 3}
Sparsity == 2

-----------------------------------------------------------------------------
(* str.encode("utf-8") and bytes.decode("utf-8"), for code points below    *)
(* 2048 (one- and two-byte forms).                                         *)

RECURSIVE Utf8Encode(_)
Utf8Encode(s) ==
    IF s = <<>> THEN <<>>
    ELSE LET cp == Head(s)
         IN  (IF cp < 128 THEN <<cp>>
              ELSE <<192 + (cp \div 64), 128 + (cp % 64)>>)
             \o Utf8Encode(Tail(s))

DecodeError == <<-2>>

RECURSIVE Utf8Decode(_)
Utf8Decode(b) ==
    IF b = <<>> THEN <<>>
    ELSE IF b[1] < 128
         THEN LET rest == Utf8Decode(Tail(b))
              IN  IF rest = DecodeError THEN DecodeError ELSE <<b[1]>> \o rest
    ELSE IF b[1] >= 194 /\ b[1] <= 223 /\ Len(b) >= 2 /\ b[2] >= 128 /\ b[2] <= 191
         THEN LET rest == Utf8Decode(Tail(Tail(b)))
              IN  IF rest = DecodeError THEN DecodeError
                  ELSE <<(b[1] - 192) * 64 + (b[2] - 128)>> \o rest
    ELSE DecodeError

-----------------------------------------------------------------------------
(* zlib.crc32: the reflected CRC-32, polynomial 0xEDB88320, initial value  *)
(* and final xor 0xFFFFFFFF.  A 32-bit value is a pair <<hi, lo>> of       *)
(* 16-bit halves.                                                          *)

RECURSIVE XorBits(_, _, _)
XorBits(a, b, n) ==
    IF n = 0 THEN 0
    ELSE ((a + b) % 2) + 2 * XorBits(a \div 2, b \div 2, n - 1)

Xor32(x, y) == <<XorBits(x[1], y[1], 16), XorBits(x[2], y[2], 16)>>

Shr32(x) == <<x[1] \div 2, (x[2] \div 2) + (x[1] % 2) * 32768>>

CrcPoly == <<60856, 33568>>
CrcOnes == <<65535, 65535>>

RECURSIVE CrcShift(_, _)
CrcShift(c, n) ==
    IF n = 0 THEN c
    ELSE CrcShift(IF c[2] % 2 = 1 THEN Xor32(Shr32(c), CrcPoly) ELSE Shr32(c), n - 1)

RECURSIVE CrcUpdate(_, _)
CrcUpdate(c, bytes) ==
    IF bytes = <<>> THEN c
    ELSE CrcUpdate(CrcShift(Xor32(c, <<0, Head(bytes)>>), 8), Tail(bytes))

Crc32(bytes) == Xor32(CrcUpdate(CrcOnes, bytes), CrcOnes)

(* str(n).encode("utf-8") of a 32-bit value: its decimal digits in ASCII.   *)
RECURSIVE DecimalText(_)
DecimalText(x) ==
    IF x[1] = 0 /\ x[2] < 10 THEN <<48 + x[2]>>
    ELSE LET t == (x[1] % 10) * 65536 + x[2]
         IN  DecimalText(<<x[1] \div 10, t \div 10>>) \o <<48 + (t % 10)>>

-----------------------------------------------------------------------------
(* wal.py.  A record is                                                    *)
(*   key_len(4) val_len(4) checksum_len(4) key value checksum              *)
(* with the three lengths big-endian and the checksum the decimal text of  *)
(* crc32(key + value).                                                     *)

HEADER_SIZE == 12

Min(a, b) == IF a < b THEN a ELSE b

BadPackU32(n) == <<n % 256, (n \div 256) % 256, (n \div 65536) % 256, n \div 16777216>>

(* struct.pack(">I", n) and struct.unpack(">I", b)                         *)
PackU32(n) == <<n \div 16777216, (n \div 65536) % 256, (n \div 256) % 256, n % 256>>
UnpackU32(b) == b[1] * 16777216 + b[2] * 65536 + b[3] * 256 + b[4]

(* f.read(n) at offset pos: the bytes that are there, at most n.           *)
Read(file, pos, n) == SubSeq(file, pos + 1, Min(pos + n, Len(file)))

(* The CRC-32 of the byte strings the inputs give, computed once.          *)
CrcTable ==
    [b \in {Utf8Encode(kv[1]) \o Utf8Encode(kv[2]) : kv \in Keys \X Values} |-> Crc32(b)]

Crc32Of(bytes) == IF bytes \in DOMAIN CrcTable THEN CrcTable[bytes] ELSE Crc32(bytes)

BadChecksum(key_bytes, value_bytes) == Crc32Of(key_bytes)

(* WAL._calculate_checksum                                                 *)
Checksum(key_bytes, value_bytes) == Crc32Of(key_bytes \o value_bytes)

WalRecord(key, value) ==
    LET key_bytes == Utf8Encode(key)
        value_bytes == Utf8Encode(value)
        checksum_bytes == DecimalText(Checksum(key_bytes, value_bytes))
    IN  PackU32(Len(key_bytes)) \o PackU32(Len(value_bytes))
            \o PackU32(Len(checksum_bytes))
            \o key_bytes \o value_bytes \o checksum_bytes

(* WAL.append writes the record at the end of the file.                    *)
WalAppend(file, key, value) == file \o WalRecord(key, value)

(* int(bytes.decode("utf-8")) for bytes that are digits, letters or not    *)
(* UTF-8: the digits without their leading zeros, or ValueError.           *)
ValueError == <<-3>>

RECURSIVE StripZeros(_)
StripZeros(d) == IF Len(d) > 1 /\ d[1] = 48 THEN StripZeros(Tail(d)) ELSE d

ParseInt(b) ==
    IF b = <<>> \/ \E i \in 1..Len(b) : b[i] < 48 \/ b[i] > 57 THEN ValueError
    ELSE StripZeros(b)

(* WAL.replay from offset pos with the entries read so far: the entries    *)
(* returned, and the exception raised, None if it returns.                 *)
RECURSIVE ReplayFrom(_, _, _)
ReplayFrom(file, pos, entries) ==
    LET header_data == Read(file, pos, HEADER_SIZE)
        stop == [entries |-> entries, raised |-> None]
    IN  IF Len(header_data) < HEADER_SIZE THEN stop
        ELSE
        LET key_len == UnpackU32(SubSeq(header_data, 1, 4))
            val_len == UnpackU32(SubSeq(header_data, 5, 8))
            checksum_len == UnpackU32(SubSeq(header_data, 9, 12))
            p1 == pos + HEADER_SIZE
            key_bytes == Read(file, p1, key_len)
            p2 == p1 + Len(key_bytes)
            value_bytes == IF val_len > 0 THEN Read(file, p2, val_len) ELSE <<>>
            p3 == p2 + Len(value_bytes)
            checksum_bytes == Read(file, p3, checksum_len)
            p4 == p3 + Len(checksum_bytes)
            checksum_data == ParseInt(checksum_bytes)
        IN  IF Len(key_bytes) < key_len THEN stop
            ELSE IF Len(value_bytes) < val_len THEN stop
            ELSE IF checksum_data = ValueError
                 THEN [entries |-> entries, raised |-> ValueError]
            ELSE IF checksum_data # DecimalText(Checksum(key_bytes, value_bytes))
                 THEN stop
            ELSE LET key == Utf8Decode(key_bytes)
                     value == IF val_len > 0 THEN Utf8Decode(value_bytes) ELSE None
                 IN  IF key = DecodeError \/ value = DecodeError
                     THEN [entries |-> entries, raised |-> ValueError]
                     ELSE ReplayFrom(file, p4, Append(entries, <<key, value>>))

WalReplay(file) == ReplayFrom(file, 0, <<>>)

-----------------------------------------------------------------------------
(* memtable.py.  _data is a dict: a function on Keys, None where absent.   *)

EmptyDict == [k \in Keys |-> None]

MemSet(data, key, value) == [data EXCEPT ![key] = value]

MemGet(data, key) == data[key]

(* MemTable.clear assigns a new attribute, self.data, and leaves _data.    *)
MemClear(data) == data

MemLen(data) == Cardinality({k \in Keys : data[k] # None})

(* Python's < on str: lexicographic by code point.                         *)
RECURSIVE StrLess(_, _)
StrLess(a, b) ==
    IF b = <<>> THEN FALSE
    ELSE IF a = <<>> THEN TRUE
    ELSE IF a[1] # b[1] THEN a[1] < b[1]
    ELSE StrLess(Tail(a), Tail(b))

RECURSIVE SortedKeys(_)
SortedKeys(ks) ==
    IF ks = {} THEN <<>>
    ELSE LET least == CHOOSE k \in ks : \A j \in ks : j = k \/ StrLess(k, j)
         IN  <<least>> \o SortedKeys(ks \ {least})

BadGetSortedItems(data) ==
    LET ks == SortedKeys({k \in Keys : data[k] # None})
    IN  [i \in 1..Len(ks) |-> <<ks[Len(ks) + 1 - i], data[ks[Len(ks) + 1 - i]]>>]

(* sorted(self._data.items())                                              *)
GetSortedItems(data) ==
    LET ks == SortedKeys({k \in Keys : data[k] # None})
    IN  [i \in 1..Len(ks) |-> <<ks[i], data[ks[i]]>>]

-----------------------------------------------------------------------------
(* bloom_filter.py.  bit_array is the set of the positions of its 1 bits.  *)

ZeroDivisionError == <<-6>>

(* An error rate is held in thousandths: 10 is 0.01, the rate the writer   *)
(* builds its filters with; 1000 is 1.0.                                   *)
BloomErrorRate == 10

(* ln(2), and -ln(p) / ln(2)^2 for the error rates p of the model, in      *)
(* millionths.                                                             *)
Ln2Micro == 693147

BitsPerKeyMicro(p) ==
    CASE p = 10 -> 9585058
      [] p = 100 -> 4792529
      [] p = 500 -> 1442695
      [] p = 1000 -> 0

(* int(num / den): the quotient, rounded towards zero.                     *)
PyInt(num, den) ==
    LET n == IF num < 0 THEN -num ELSE num
        d == IF den < 0 THEN -den ELSE den
    IN  IF (num < 0) = (den < 0) THEN n \div d ELSE -(n \div d)

(* Python's %: the result has the sign of the divisor.                     *)
PyMod(a, m) == IF m > 0 THEN a % m ELSE -((-a) % (-m))

GetSize(n, p) == PyInt(n * BitsPerKeyMicro(p), 1000000)

GetHashCount(m, n) == PyInt(m * Ln2Micro, n * 1000000)

(* BloomFilter.__init__ tests nothing.  What it raises: math.log on an     *)
(* error rate that is not positive, m / n on a capacity of 0.              *)
BloomNewRaises(n, p) ==
    IF p <= 0 THEN ValueError
    ELSE IF n = 0 THEN ZeroDivisionError
    ELSE None

(* The object it builds otherwise.                                         *)
BloomNew(n, p) ==
    [size |-> GetSize(n, p),
     hash_count |-> GetHashCount(GetSize(n, p), n),
     bit_array |-> {}]


(* int(hashlib.sha256(key_bytes + salt).hexdigest(), 16) for the keys      *)
(* "a", "b", "e-acute" and "z" and the salts 0..5, reduced modulo 4788, a  *)
(* common multiple of the sizes of the filters of the model.               *)
Sha256Row(key_bytes) ==
    CASE key_bytes = <<97>> -> <<1051, 3685, 3854, 3115, 3770, 2948>>
      [] key_bytes = <<98>> -> <<3005, 4421, 4523, 2568, 3651, 1357>>
      [] key_bytes = <<195, 169>> -> <<1997, 1330, 352, 4050, 1045, 2818>>
      [] key_bytes = <<122>> -> <<522, 552, 1305, 2205, 4152, 2040>>

Sha256(data) == Sha256Row(SubSeq(data, 1, Len(data) - 1))[data[Len(data)] + 1]

(* The bit position _hashes yields for salt i.                             *)
HashAt(bf, key, i) == PyMod(Sha256(Utf8Encode(key) \o <<i>>), bf.size)

Hashes(bf, key) == {HashAt(bf, key, i) : i \in 0..(bf.hash_count - 1)}

(* BloomFilter.add, position by position: 1 << h raises on a negative h.   *)
RECURSIVE AddFrom(_, _, _)
AddFrom(bf, key, i) ==
    IF i >= bf.hash_count THEN [bf |-> bf, raised |-> None]
    ELSE LET h == HashAt(bf, key, i)
         IN  IF h < 0 THEN [bf |-> bf, raised |-> ValueError]
             ELSE AddFrom([bf EXCEPT !.bit_array = @ \cup {h}], key, i + 1)

BadBloomAdd(bf, key) == bf

BloomAdd(bf, key) == AddFrom(bf, key, 0).bf

(* BloomFilter.not_contains: all() over the positions, in order; it stops  *)
(* at the first set bit, and 1 << h raises on a negative h.                *)
RECURSIVE NotContainsFrom(_, _, _)
NotContainsFrom(bf, key, i) ==
    IF i >= bf.hash_count THEN [out |-> TRUE, raised |-> None]
    ELSE LET h == HashAt(bf, key, i)
         IN  IF h < 0 THEN [out |-> FALSE, raised |-> ValueError]
             ELSE IF h \in bf.bit_array THEN [out |-> FALSE, raised |-> None]
             ELSE NotContainsFrom(bf, key, i + 1)

NotContains(bf, key) == NotContainsFrom(bf, key, 0).out

-----------------------------------------------------------------------------
(* sstable/writer.py.  A file pair: the data file's bytes, the index       *)
(* file's checkpoint lines, whether the marker line was written, and the   *)
(* pickled filter after it.                                                *)

TAB == 9
NEWLINE == 10

Line(key, value) == Utf8Encode(key) \o <<TAB>> \o Utf8Encode(value) \o <<NEWLINE>>

EmptyPair(n) ==
    [data |-> <<>>, index |-> <<>>, marker |-> FALSE, bloom |-> BloomNew(n, BloomErrorRate),
     has_index |-> TRUE]

(* The data file alone: open() of the index file failed.                   *)
DataOnly(n) == [EmptyPair(n) EXCEPT !.has_index = FALSE]

RECURSIVE WriteFrom(_, _, _, _, _)
WriteFrom(items, i, offset, sparsity, pair) ==
    IF i >= Len(items)
    THEN [pair EXCEPT !.marker = TRUE]
    ELSE LET key == items[i + 1][1]
             value == items[i + 1][2]
             line == Line(key, value)
         IN  WriteFrom(items, i + 1, offset + Len(line), sparsity,
                 [data |-> pair.data \o line,
                  index |-> IF i % sparsity = 0
                            THEN Append(pair.index, <<key, offset>>)
                            ELSE pair.index,
                  marker |-> FALSE,
                  has_index |-> TRUE,
                  bloom |-> BloomAdd(pair.bloom, key)])

BadWriterWrite(sorted_kv_pairs, sparsity) ==
    WriteFrom(sorted_kv_pairs, 0, 0, sparsity + 1, EmptyPair(Len(sorted_kv_pairs)))

WriterWrite(sorted_kv_pairs, sparsity) ==
    WriteFrom(sorted_kv_pairs, 0, 0, sparsity, EmptyPair(Len(sorted_kv_pairs)))

-----------------------------------------------------------------------------
(* sstable/reader.py.  The constructor's loop leaves sparse_index empty:   *)
(* the line that parses a checkpoint follows the break.  It sets           *)
(* bloom_filter only if it meets the marker, and never sets data_path.     *)

AttributeError == <<-4>>
IOError == <<-5>>

ReaderInit(pair) ==
    [sparse_index |-> <<>>, has_bloom |-> pair.marker, bloom_filter |-> pair.bloom]

(* SSTableReader.get: the filter's answer, then open(self.data_path).      *)
ReaderGet(reader, key) ==
    IF ~reader.has_bloom THEN AttributeError
    ELSE IF NotContains(reader.bloom_filter, key) THEN None
    ELSE AttributeError

(* Python's < on the tuples (key, offset).                                 *)
CheckpointLess(a, b) == StrLess(a[1], b[1]) \/ (a[1] = b[1] /\ a[2] < b[2])

(* bisect.bisect_right(a, x): the number of entries before the insertion   *)
(* point.                                                                  *)
RECURSIVE BisectRight(_, _, _, _)
BisectRight(a, x, lo, hi) ==
    IF lo >= hi THEN lo
    ELSE LET mid == (lo + hi) \div 2
         IN  IF CheckpointLess(x, a[mid + 1])
             THEN BisectRight(a, x, lo, mid)
             ELSE BisectRight(a, x, mid + 1, hi)

(* start_offset of SSTableReader.get.                                      *)
StartOffset(reader, key) ==
    LET i == BisectRight(reader.sparse_index, <<key, 0>>, 0, Len(reader.sparse_index))
    IN  IF i > 0 THEN reader.sparse_index[i][2] ELSE 0

(* SSTableReader.get step by step: what it returns or raises, the offset   *)
(* it computed and the lines of the data file it read.  The object has no  *)
(* attribute data_path, so open(self.data_path) raises and no line is read.*)
ReaderGetSteps(reader, key) ==
    IF ~reader.has_bloom
    THEN [out |-> None, raised |-> AttributeError, start_offset |-> 0, lines |-> 0]
    ELSE IF NotContains(reader.bloom_filter, key)
    THEN [out |-> None, raised |-> None, start_offset |-> 0, lines |-> 0]
    ELSE [out |-> None, raised |-> AttributeError,
          start_offset |-> StartOffset(reader, key), lines |-> 0]

-----------------------------------------------------------------------------
(* lsm_engine.py                                                           *)

NoArg == [key |-> None, value |-> None, timestamp |-> 0]
NoRet == [op |-> "none", key |-> None, out |-> None, raised |-> None, flushed |-> FALSE]
NoDamage == [kind |-> "none", at |-> 0]
NoBloom ==
    [constructed |-> FALSE, n |-> 0, p |-> 0,
     filter |-> [size |-> 0, hash_count |-> 0, bit_array |-> {}], added |-> {}]

(* An operation's outcome: the value it returned, or the exception raised. *)
Returned(op, key, out, flushed) ==
    [op |-> op, key |-> key, out |-> out, raised |-> None, flushed |-> flushed]

Raised(op, key, exception) ==
    [op |-> op, key |-> key, out |-> None, raised |-> exception, flushed |-> FALSE]

(* The operation in progress: flush is entered from set or on its own.     *)
Caller == IF arg.key = None THEN "flush" ELSE "set"

(* LSMEngine._recover_from_wal: entries with a value are set, the others   *)
(* are skipped.                                                            *)
RECURSIVE RecoverFrom(_, _)
RecoverFrom(entries, data) ==
    IF entries = <<>> THEN data
    ELSE LET key == Head(entries)[1]
             value == Head(entries)[2]
         IN  RecoverFrom(Tail(entries),
                 IF value # None THEN MemSet(data, key, value) ELSE data)

BadRecoverFromWal(entries) ==
    RecoverFrom(SubSeq(entries, 1, Len(entries) - 1), EmptyDict)

RecoverFromWal(entries) == RecoverFrom(entries, EmptyDict)

(* The cache's keys from the greatest down: reversed(index_cache.keys()).  *)
RECURSIVE Descending(_)
Descending(ts) ==
    IF ts = {} THEN <<>>
    ELSE LET newest == CHOOSE t \in ts : \A u \in ts : u <= t
         IN  <<newest>> \o Descending(ts \ {newest})

RECURSIVE SearchFiles(_, _, _)
SearchFiles(readers, order, key) ==
    IF order = <<>> THEN None
    ELSE LET value == ReaderGet(readers[Head(order)], key)
         IN  IF value # None THEN value
             ELSE SearchFiles(readers, Tail(order), key)

(* LSMEngine.get: the value, None, or the exception it raises.             *)
EngineGet(data, readers, key) ==
    LET value == MemGet(data, key)
    IN  IF value # None THEN value
        ELSE SearchFiles(readers, Descending(DOMAIN readers), key)

(* The directory scan of LSMEngine.__init__: a reader for every data file  *)
(* that has an index file.                                                 *)
ScanDirectory(files) ==
    [t \in {u \in DOMAIN files : files[u].has_index} |-> ReaderInit(files[t])]

Init ==
    /\ wal = <<>>
    /\ walOpen = TRUE
    /\ mem = EmptyDict
    /\ disk = <<>>
    /\ cache = <<>>
    /\ clock = 1
    /\ capacity \in Capacities
    /\ ref = EmptyDict
    /\ sets = 0
    /\ pc = "idle"
    /\ arg = NoArg
    /\ ret = NoRet
    /\ hist = <<>>
    /\ dmg = NoDamage
    /\ bloom = NoBloom
    /\ closes = 0
    /\ sparsity_index = Sparsity
    /\ opens = <<>>
    /\ db_folder = "A"
    /\ elsewhere = <<>>

BadSetAppend(key, value) ==
    /\ pc = "idle"
    /\ walOpen
    /\ sets < MaxSets
    /\ MemLen(MemSet(mem, key, value)) >= capacity => clock <= MaxFlushes
    /\ sets' = sets + 1
    /\ mem' = MemSet(mem, key, value)
    /\ arg' = [key |-> key, value |-> value, timestamp |-> 0]
    /\ pc' = "set_memtable"
    /\ ret' = NoRet
    /\ UNCHANGED <<wal, hist, walOpen, disk, cache, clock, capacity, ref, dmg, bloom, closes, sparsity_index,
                   opens, db_folder, elsewhere>>

(* LSMEngine.set, first statement: wal.append(key, value).                 *)
SetAppend(key, value) ==
    /\ pc = "idle"
    /\ walOpen
    /\ sets < MaxSets
    /\ MemLen(MemSet(mem, key, value)) >= capacity => clock <= MaxFlushes
    /\ sets' = sets + 1
    /\ wal' = WalAppend(wal, key, value)
    /\ hist' = Append(hist, <<key, value>>)
    /\ arg' = [key |-> key, value |-> value, timestamp |-> 0]
    /\ pc' = "set_memtable"
    /\ ret' = NoRet
    /\ UNCHANGED <<walOpen, mem, disk, cache, clock, capacity, ref, dmg, bloom, closes, sparsity_index,
                   opens, db_folder, elsewhere>>

(* LSMEngine.set, second statement and the capacity test.                  *)
SetMemtable ==
    /\ pc = "set_memtable"
    /\ mem' = MemSet(mem, arg.key, arg.value)
    /\ ref' = [ref EXCEPT ![arg.key] = arg.value]
    /\ IF MemLen(mem') >= capacity
       THEN pc' = "flush_write" /\ ret' = ret
       ELSE pc' = "idle" /\ ret' = Returned("set", arg.key, None, FALSE)
    /\ UNCHANGED <<wal, walOpen, disk, cache, clock, capacity, sets, arg, hist, dmg, bloom, closes, sparsity_index,
                   opens, db_folder, elsewhere>>

BadFlushCall ==
    /\ pc = "idle"
    /\ walOpen
    /\ IF MemLen(mem) = 0
       THEN pc' = pc /\ ret' = Returned("flush", None, None, FALSE) /\ wal' = <<>> /\ hist' = <<>>
       ELSE clock <= MaxFlushes /\ pc' = "flush_write" /\ ret' = NoRet /\ UNCHANGED <<wal, hist>>
    /\ arg' = NoArg
    /\ UNCHANGED <<walOpen, mem, disk, cache, clock, capacity, sets, ref, dmg, bloom, closes, sparsity_index,
                   opens, db_folder, elsewhere>>

(* LSMEngine.flush called on its own: the emptiness test.                  *)
FlushCall ==
    /\ pc = "idle"
    /\ walOpen
    /\ IF MemLen(mem) = 0
       THEN pc' = pc /\ ret' = Returned("flush", None, None, FALSE)
       ELSE clock <= MaxFlushes /\ pc' = "flush_write" /\ ret' = NoRet
    /\ arg' = NoArg
    /\ UNCHANGED <<wal, walOpen, mem, disk, cache, clock, capacity, sets, ref, hist, dmg, bloom, closes, sparsity_index,
                   opens, db_folder, elsewhere>>

BadFlushWrite ==
    /\ pc = "flush_write"
    /\ disk' = (clock :> EmptyPair(MemLen(mem))) @@ disk
    /\ wal' = <<>>
    /\ hist' = <<>>
    /\ arg' = [arg EXCEPT !.timestamp = clock]
    /\ clock' = clock + 1
    /\ pc' = "flush_clear_memtable"
    /\ UNCHANGED <<walOpen, mem, cache, capacity, sets, ref, ret, dmg, bloom, closes, sparsity_index,
                   opens, db_folder, elsewhere>>

(* LSMEngine.flush: the timestamp and SSTableWriter.write.                 *)
FlushWrite ==
    /\ pc = "flush_write"
    /\ disk' = (clock :> WriterWrite(GetSortedItems(mem), sparsity_index)) @@ disk
    /\ arg' = [arg EXCEPT !.timestamp = clock]
    /\ clock' = clock + 1
    /\ pc' = "flush_clear_memtable"
    /\ UNCHANGED <<wal, walOpen, mem, cache, capacity, sets, ref, ret, hist, dmg, bloom, closes, sparsity_index,
                   opens, db_folder, elsewhere>>

(* SSTableWriter.write raises: with no file yet, with the data file alone, *)
(* or with the pair opened and not finished.  The error leaves flush, and  *)
(* set if set called it.  The directory holds at most one unfinished file  *)
(* or pair.                                                                *)
FlushWriteFails ==
    /\ pc = "flush_write"
    /\ \E opened \in IF \A t \in DOMAIN disk : disk[t].marker
                      THEN {"none", "data", "pair"} ELSE {"none"} :
          CASE opened = "none" -> disk' = disk /\ clock' = clock
            [] opened = "data" ->
                 disk' = (clock :> DataOnly(MemLen(mem))) @@ disk /\ clock' = clock + 1
            [] opened = "pair" ->
                 disk' = (clock :> EmptyPair(MemLen(mem))) @@ disk /\ clock' = clock + 1
    /\ pc' = "idle"
    /\ ret' = Raised(Caller, arg.key, IOError)
    /\ UNCHANGED <<wal, walOpen, mem, cache, capacity, sets, ref, arg, hist, dmg, bloom, closes, sparsity_index,
                   opens, db_folder, elsewhere>>

FlushClearMemtable ==
    /\ pc = "flush_clear_memtable"
    /\ mem' = MemClear(mem)
    /\ pc' = "flush_clear_wal"
    /\ UNCHANGED <<wal, walOpen, disk, cache, clock, capacity, sets, ref, arg, ret, hist, dmg, bloom, closes, sparsity_index,
                   opens, db_folder, elsewhere>>

(* WAL.clear: close the handle, open the file again for writing.           *)
FlushClearWal ==
    /\ pc = "flush_clear_wal"
    /\ wal' = <<>>
    /\ walOpen' = TRUE
    /\ closes' = 0
    /\ hist' = <<>>
    /\ pc' = "flush_register"
    /\ UNCHANGED <<mem, disk, cache, clock, capacity, sets, ref, arg, ret, dmg, bloom, sparsity_index,
                   opens, db_folder, elsewhere>>

FlushRegister ==
    /\ pc = "flush_register"
    /\ cache' = (arg.timestamp :> ReaderInit(disk[arg.timestamp])) @@ cache
    /\ pc' = "idle"
    /\ ret' = Returned(Caller, arg.key, None, TRUE)
    /\ UNCHANGED <<wal, walOpen, mem, disk, clock, capacity, sets, ref, arg, hist, dmg, bloom, closes, sparsity_index,
                   opens, db_folder, elsewhere>>

BadGet(key) ==
    /\ pc = "idle"
    /\ walOpen
    /\ LET value == EngineGet(mem, cache, key)
       IN  ret' = IF value = AttributeError
                  THEN Raised("get", key, AttributeError)
                  ELSE Returned("get", key, value, FALSE)
    /\ mem' = [mem EXCEPT ![key] = None]
    /\ UNCHANGED <<wal, walOpen, disk, cache, clock, capacity, sets, ref, pc, arg, hist, dmg, bloom, closes, sparsity_index,
                   opens, db_folder, elsewhere>>

(* LSMEngine.get                                                           *)
Get(key) ==
    /\ pc = "idle"
    /\ walOpen
    /\ LET value == EngineGet(mem, cache, key)
       IN  ret' = IF value = AttributeError
                  THEN Raised("get", key, AttributeError)
                  ELSE Returned("get", key, value, FALSE)
    /\ UNCHANGED <<wal, walOpen, mem, disk, cache, clock, capacity, sets, ref, pc, arg, hist, dmg, bloom, closes, sparsity_index,
                   opens, db_folder, elsewhere>>

(* A restart: engine.wal.close(), then LSMEngine.__init__ on the same     *)
(* directories: a new MemTable, the log replayed into it, the directory    *)
(* scanned for file pairs.                                                 *)
Restart ==
    /\ pc = "idle"
    /\ LET entries == WalReplay(wal)
       IN  IF entries.raised # None
           THEN /\ mem' = EmptyDict
                /\ cache' = <<>>
                /\ walOpen' = FALSE
                /\ closes' = 1
                /\ ret' = Raised("open", None, entries.raised)
           ELSE /\ mem' = RecoverFromWal(entries.entries)
                /\ cache' = ScanDirectory(disk)
                /\ walOpen' = TRUE
                /\ closes' = 0
                /\ ret' = Returned("open", None, None, FALSE)
    /\ UNCHANGED <<wal, disk, clock, capacity, sets, ref, pc, arg, hist, dmg, bloom, sparsity_index,
                   opens, db_folder, elsewhere>>

Next ==
    \/ \E kv \in Inputs : SetAppend(kv[1], kv[2])
    \/ SetMemtable
    \/ FlushCall
    \/ FlushWrite
    \/ FlushWriteFails
    \/ FlushClearMemtable
    \/ FlushClearWal
    \/ FlushRegister
    \/ \E key \in Keys : Get(key)
    \/ Restart

Spec == Init /\ [][Next]_vars

-----------------------------------------------------------------------------
(* The engine with a log that can fail: wal.append raises on an I/O error  *)
(* of write, flush or fsync, having written nothing, a record's header, or *)
(* the whole record; and on a handle that engine.wal.close() has closed.   *)
(* A run has at most one I/O error of the log; it sets and flushes, and    *)
(* does not restart.                                                       *)

(* An engine exists: the last construction did not raise.                  *)
EngineLive == ~(ret.op = "open" /\ ret.raised # None)

BadSetAppendFails(key, value) ==
    /\ pc = "idle"
    /\ walOpen
    /\ dmg = NoDamage
    /\ sets < MaxSets
    /\ sets' = sets + 1
    /\ mem' = MemSet(mem, key, value)
    /\ dmg' = [kind |-> "append_failed", at |-> Len(wal)]
    /\ ret' = Raised("set", key, IOError)
    /\ UNCHANGED <<wal, walOpen, disk, cache, clock, capacity, ref, pc, arg, hist, bloom, closes, sparsity_index,
                   opens, db_folder, elsewhere>>

(* LSMEngine.set, first statement, raising OSError.                        *)
SetAppendFails(key, value) ==
    /\ pc = "idle"
    /\ walOpen
    /\ dmg = NoDamage
    /\ sets < MaxSets
    /\ sets' = sets + 1
    /\ \E n \in {0, HEADER_SIZE, Len(WalRecord(key, value))} :
          wal' = wal \o SubSeq(WalRecord(key, value), 1, n)
    /\ dmg' = [kind |-> "append_failed", at |-> Len(wal)]
    /\ ret' = Raised("set", key, IOError)
    /\ UNCHANGED <<walOpen, mem, disk, cache, clock, capacity, ref, pc, arg, hist, bloom, closes, sparsity_index,
                   opens, db_folder, elsewhere>>

(* LSMEngine.set on a closed handle: self._file.write raises ValueError.   *)
SetAppendClosed(key, value) ==
    /\ pc = "idle"
    /\ ~walOpen
    /\ EngineLive
    /\ sets < MaxSets
    /\ sets' = sets + 1
    /\ ret' = Raised("set", key, ValueError)
    /\ UNCHANGED <<wal, walOpen, mem, disk, cache, clock, capacity, ref, pc, arg, hist, dmg, bloom, closes, sparsity_index,
                   opens, db_folder, elsewhere>>

(* engine.wal.close()                                                      *)
EngineCloseWal ==
    /\ pc = "idle"
    /\ walOpen
    /\ walOpen' = FALSE
    /\ closes' = closes + 1
    /\ ret' = Returned("close", None, None, FALSE)
    /\ UNCHANGED <<wal, mem, disk, cache, clock, capacity, ref, sets, pc, arg, hist, dmg, bloom, sparsity_index,
                   opens, db_folder, elsewhere>>

NextIo ==
    \/ \E kv \in Inputs : SetAppend(kv[1], kv[2])
    \/ SetMemtable
    \/ FlushCall
    \/ FlushWrite
    \/ FlushWriteFails
    \/ FlushClearMemtable
    \/ FlushClearWal
    \/ FlushRegister
    \/ \E kv \in Inputs : SetAppendFails(kv[1], kv[2])
    \/ \E kv \in Inputs : SetAppendClosed(kv[1], kv[2])
    \/ EngineCloseWal

SpecIo == Init /\ [][NextIo]_vars

-----------------------------------------------------------------------------
(* The log on its own: a WAL object appended to, closed, opened again,     *)
(* cleared and replayed, and a log file that was cut short or had one byte *)
(* changed while no handle was open on it.                                 *)

(* The bytes a damaged byte is changed to: "1", "b", and 0xFF.             *)
FlipBytes == {49, 98, 255}

(* The records of the inputs, computed once.                               *)
RecordTable == [kv \in Keys \X Values |-> WalRecord(kv[1], kv[2])]

(* The file that holds the records of pairs, in order.                     *)
RECURSIVE LogOf(_)
LogOf(pairs) ==
    IF pairs = <<>> THEN <<>>
    ELSE RecordTable[Head(pairs)] \o LogOf(Tail(pairs))

(* The offset at which record i of the log of hist ends.                   *)
RecordEnd(i) == Len(LogOf(SubSeq(hist, 1, i)))

(* The record that holds byte number pos (from 1), and the part of it.     *)
RecordAt(pos) == CHOOSE i \in 1..Len(hist) : RecordEnd(i - 1) < pos /\ pos <= RecordEnd(i)

RegionAt(pos) ==
    LET i == RecordAt(pos)
        off == pos - RecordEnd(i - 1)
        key_len == Len(Utf8Encode(hist[i][1]))
        val_len == Len(Utf8Encode(hist[i][2]))
    IN  IF off <= HEADER_SIZE THEN "header"
        ELSE IF off <= HEADER_SIZE + key_len THEN "key"
        ELSE IF off <= HEADER_SIZE + key_len + val_len THEN "value"
        ELSE "checksum"

InitWal == Init /\ capacity = 3

(* WAL.append                                                              *)
WalAppendOp(key, value) ==
    /\ walOpen
    /\ dmg = NoDamage
    /\ Len(hist) < MaxWalRecords
    /\ wal' = WalAppend(wal, key, value)
    /\ hist' = Append(hist, <<key, value>>)
    /\ ret' = Returned("append", key, None, FALSE)
    /\ UNCHANGED <<walOpen, mem, disk, cache, clock, capacity, sets, ref, pc, arg, dmg, bloom, closes, sparsity_index,
                   opens, db_folder, elsewhere>>

(* WAL.close, on an open or a closed handle: self._file is true of either, *)
(* and closing a closed file object does nothing.                          *)
BadWalCloseOp ==
    /\ dmg = NoDamage
    /\ closes < MaxCloses
    /\ closes' = closes + 1
    /\ walOpen' = FALSE
    /\ wal' = IF walOpen THEN wal ELSE <<>>
    /\ ret' = Returned("close", None, None, FALSE)
    /\ UNCHANGED <<mem, disk, cache, clock, capacity, sets, ref, pc, arg, hist, dmg, bloom, sparsity_index,
                   opens, db_folder, elsewhere>>

WalCloseOp ==
    /\ dmg = NoDamage
    /\ closes < MaxCloses
    /\ closes' = closes + 1
    /\ walOpen' = FALSE
    /\ ret' = Returned("close", None, None, FALSE)
    /\ UNCHANGED <<wal, mem, disk, cache, clock, capacity, sets, ref, pc, arg, hist, dmg, bloom, sparsity_index,
                   opens, db_folder, elsewhere>>

(* WAL.__init__ on the same path: the file is opened for appending.        *)
WalOpenOp ==
    /\ dmg = NoDamage
    /\ ~walOpen
    /\ walOpen' = TRUE
    /\ closes' = 0
    /\ ret' = Returned("open", None, None, FALSE)
    /\ UNCHANGED <<wal, mem, disk, cache, clock, capacity, sets, ref, pc, arg, hist, dmg, bloom, sparsity_index,
                   opens, db_folder, elsewhere>>

(* WAL.clear                                                               *)
WalClearOp ==
    /\ dmg = NoDamage
    /\ wal' = <<>>
    /\ hist' = <<>>
    /\ walOpen' = TRUE
    /\ closes' = 0
    /\ ret' = Returned("clear", None, None, FALSE)
    /\ UNCHANGED <<mem, disk, cache, clock, capacity, sets, ref, pc, arg, dmg, bloom, sparsity_index,
                   opens, db_folder, elsewhere>>

(* WAL.replay                                                              *)
WalReplayOp ==
    /\ LET entries == WalReplay(wal)
       IN  ret' = IF entries.raised # None
                  THEN Raised("replay", None, entries.raised)
                  ELSE Returned("replay", None, entries.entries, FALSE)
    /\ UNCHANGED <<wal, walOpen, mem, disk, cache, clock, capacity, sets, ref, pc, arg, hist, dmg, bloom, closes, sparsity_index,
                   opens, db_folder, elsewhere>>

(* The file loses its end: n bytes are left.                               *)
WalTruncate(n) ==
    /\ ~walOpen
    /\ dmg = NoDamage
    /\ n < Len(wal)
    /\ wal' = SubSeq(wal, 1, n)
    /\ dmg' = [kind |-> "truncated", at |-> n]
    /\ ret' = NoRet
    /\ UNCHANGED <<walOpen, mem, disk, cache, clock, capacity, sets, ref, pc, arg, hist, bloom, closes, sparsity_index,
                   opens, db_folder, elsewhere>>

(* One byte of a record's key, value or checksum is changed.               *)
WalFlip(pos, b) ==
    /\ ~walOpen
    /\ dmg = NoDamage
    /\ pos \in 1..Len(wal)
    /\ RegionAt(pos) # "header"
    /\ wal[pos] # b
    /\ wal' = [wal EXCEPT ![pos] = b]
    /\ dmg' = [kind |-> "flipped", at |-> pos]
    /\ ret' = NoRet
    /\ UNCHANGED <<walOpen, mem, disk, cache, clock, capacity, sets, ref, pc, arg, hist, bloom, closes, sparsity_index,
                   opens, db_folder, elsewhere>>

MaxLogLen == MaxWalRecords * 30

NextWal ==
    \/ \E kv \in Inputs : WalAppendOp(kv[1], kv[2])
    \/ (walOpen /\ WalCloseOp)
    \/ WalOpenOp
    \/ WalClearOp
    \/ WalReplayOp
    \/ \E n \in 0..MaxLogLen : WalTruncate(n)
    \/ \E pos \in 1..MaxLogLen, b \in FlipBytes : WalFlip(pos, b)

SpecWal == InitWal /\ [][NextWal]_vars

(* The log with no damage, and close called on a closed handle as well.    *)
NextWalClose ==
    \/ \E kv \in Inputs : WalAppendOp(kv[1], kv[2])
    \/ WalCloseOp
    \/ WalOpenOp
    \/ WalClearOp
    \/ WalReplayOp

SpecWalClose == InitWal /\ [][NextWalClose]_vars

-----------------------------------------------------------------------------
(* The filter on its own: a BloomFilter constructed with a capacity and an *)
(* error rate, keys added to it and looked up in it.                       *)

BloomCapacities == {-1, 0, 1, 2, 3}
BloomErrorRates == {0, 10, 100, 500, 1000}

PyTrue == <<1>>
PyFalse == <<0>>

InitBloom == Init /\ capacity = 3

(* BloomFilter(capacity, error_rate)                                       *)
BloomInitOp(n, p) ==
    /\ LET raised == BloomNewRaises(n, p)
       IN  IF raised # None
           THEN /\ bloom' = [NoBloom EXCEPT !.n = n, !.p = p]
                /\ ret' = Raised("bloom_init", None, raised)
           ELSE /\ bloom' = [constructed |-> TRUE, n |-> n, p |-> p,
                             filter |-> BloomNew(n, p), added |-> {}]
                /\ ret' = Returned("bloom_init", None, None, FALSE)
    /\ UNCHANGED <<wal, walOpen, mem, disk, cache, clock, capacity, ref, sets, pc, arg, hist, dmg, closes, sparsity_index,
                   opens, db_folder, elsewhere>>

(* BloomFilter.add                                                         *)
BloomAddOp(key) ==
    /\ bloom.constructed
    /\ LET r == AddFrom(bloom.filter, key, 0)
       IN  IF r.raised # None
           THEN /\ bloom' = [bloom EXCEPT !.filter = r.bf]
                /\ ret' = Raised("add", key, r.raised)
           ELSE /\ bloom' = [bloom EXCEPT !.filter = r.bf, !.added = @ \cup {key}]
                /\ ret' = Returned("add", key, None, FALSE)
    /\ UNCHANGED <<wal, walOpen, mem, disk, cache, clock, capacity, ref, sets, pc, arg, hist, dmg, closes, sparsity_index,
                   opens, db_folder, elsewhere>>

(* BloomFilter.not_contains                                                *)
BloomNotContainsOp(key) ==
    /\ bloom.constructed
    /\ LET r == NotContainsFrom(bloom.filter, key, 0)
       IN  ret' = IF r.raised # None
                  THEN Raised("not_contains", key, r.raised)
                  ELSE Returned("not_contains", key, IF r.out THEN PyTrue ELSE PyFalse, FALSE)
    /\ UNCHANGED <<wal, walOpen, mem, disk, cache, clock, capacity, ref, sets, pc, arg, hist, dmg, bloom, closes, sparsity_index,
                   opens, db_folder, elsewhere>>

NextBloom ==
    \/ \E n \in BloomCapacities, p \in BloomErrorRates : BloomInitOp(n, p)
    \/ \E key \in Keys : BloomAddOp(key)
    \/ \E key \in Keys : BloomNotContainsOp(key)

SpecBloom == InitBloom /\ [][NextBloom]_vars

-----------------------------------------------------------------------------
(* The memtable on its own.  Next to the function that stands for _data,   *)
(* the dict is followed as Python keeps it: its items in insertion order,  *)
(* an item updated in place when its key is set again.  hist is the        *)
(* sequence of the (key, value) pairs set.                                 *)

DictSet(items, key, value) ==
    IF \E i \in 1..Len(items) : items[i][1] = key
    THEN [i \in 1..Len(items) |-> IF items[i][1] = key THEN <<key, value>> ELSE items[i]]
    ELSE Append(items, <<key, value>>)

RECURSIVE DictOf(_)
DictOf(pairs) ==
    IF pairs = <<>> THEN <<>>
    ELSE LET last == pairs[Len(pairs)]
         IN  DictSet(DictOf(SubSeq(pairs, 1, Len(pairs) - 1)), last[1], last[2])

(* Python's < on (key, value) tuples.                                      *)
TupleLess(a, b) == StrLess(a[1], b[1]) \/ (a[1] = b[1] /\ StrLess(a[2], b[2]))

(* sorted(): a stable sort, here by insertion.                             *)
RECURSIVE Insert(_, _)
Insert(sorted, x) ==
    IF sorted = <<>> THEN <<x>>
    ELSE IF TupleLess(x, Head(sorted)) THEN <<x>> \o sorted
    ELSE <<Head(sorted)>> \o Insert(Tail(sorted), x)

RECURSIVE Sorted(_)
Sorted(items) ==
    IF items = <<>> THEN <<>>
    ELSE Insert(Sorted(SubSeq(items, 1, Len(items) - 1)), items[Len(items)])

InitMem == Init /\ capacity = 3

(* MemTable.set                                                            *)
MemSetOp(key, value) ==
    /\ Len(hist) < MaxSets
    /\ mem' = MemSet(mem, key, value)
    /\ hist' = Append(hist, <<key, value>>)
    /\ ret' = Returned("set", key, None, FALSE)
    /\ UNCHANGED <<wal, walOpen, disk, cache, clock, capacity, ref, sets, pc, arg, dmg, bloom, closes, sparsity_index,
                   opens, db_folder, elsewhere>>

(* MemTable.get                                                            *)
MemGetOp(key) ==
    /\ ret' = Returned("get", key, MemGet(mem, key), FALSE)
    /\ UNCHANGED <<wal, walOpen, mem, disk, cache, clock, capacity, ref, sets, pc, arg, hist, dmg, bloom, closes, sparsity_index,
                   opens, db_folder, elsewhere>>

(* MemTable.get_sorted_items                                               *)
MemSortedOp ==
    /\ ret' = Returned("get_sorted_items", None, GetSortedItems(mem), FALSE)
    /\ UNCHANGED <<wal, walOpen, mem, disk, cache, clock, capacity, ref, sets, pc, arg, hist, dmg, bloom, closes, sparsity_index,
                   opens, db_folder, elsewhere>>

(* MemTable.clear                                                          *)
MemClearOp ==
    /\ mem' = MemClear(mem)
    /\ ret' = Returned("clear", None, None, FALSE)
    /\ UNCHANGED <<wal, walOpen, disk, cache, clock, capacity, ref, sets, pc, arg, hist, dmg, bloom, closes, sparsity_index,
                   opens, db_folder, elsewhere>>

NextMem ==
    \/ \E key \in Keys, value \in Values : MemSetOp(key, value)
    \/ \E key \in Keys : MemGetOp(key)
    \/ MemSortedOp

SpecMem == InitMem /\ [][NextMem]_vars

NextMemClear ==
    \/ \E key \in Keys, value \in Values : MemSetOp(key, value)
    \/ \E key \in Keys : MemGetOp(key)
    \/ MemSortedOp
    \/ MemClearOp

SpecMemClear == InitMem /\ [][NextMemClear]_vars

-----------------------------------------------------------------------------
(* What the claims are stated with.                                        *)

(* A pair as replay returns it: a value of length 0 reads back as None.    *)
AsReplayed(pairs) ==
    [i \in 1..Len(pairs) |-> <<pairs[i][1], IF pairs[i][2] = <<>> THEN None ELSE pairs[i][2]>>]

(* The number of records that lie whole before the damage.                 *)
GoodRecords ==
    IF dmg.kind = "truncated"
    THEN Cardinality({i \in 1..Len(hist) : RecordEnd(i) <= dmg.at})
    ELSE RecordAt(dmg.at) - 1

(* The lines of a data file, each split at its first tab.                  *)
FirstIndex(bytes, b) == CHOOSE i \in 1..Len(bytes) : bytes[i] = b /\ \A j \in 1..(i - 1) : bytes[j] # b

RECURSIVE LinesOf(_)
LinesOf(data) ==
    IF data = <<>> THEN <<>>
    ELSE LET n == FirstIndex(data, NEWLINE)
             t == FirstIndex(data, TAB)
         IN  <<<<Utf8Decode(SubSeq(data, 1, t - 1)), Utf8Decode(SubSeq(data, t + 1, n - 1))>>>>
                 \o LinesOf(SubSeq(data, n + 1, Len(data)))

(* The value a file pair holds for key, None if it holds none.             *)
FileValue(pair, key) ==
    LET lines == LinesOf(pair.data)
    IN  IF \E i \in 1..Len(lines) : lines[i][1] = key
        THEN lines[CHOOSE i \in 1..Len(lines) : lines[i][1] = key][2]
        ELSE None

RECURSIVE NewestFileValue(_, _)
NewestFileValue(order, key) ==
    IF order = <<>> THEN None
    ELSE LET value == FileValue(disk[Head(order)], key)
         IN  IF value # None THEN value ELSE NewestFileValue(Tail(order), key)

(* No write of a file pair has failed: every pair on disk is complete.     *)
NoFailedWrite == \A t \in DOMAIN disk : disk[t].marker

NoFlushYet == DOMAIN disk = {}

NonEmptyLog == \A i \in 1..Len(hist) : hist[i][2] # <<>>

KeysInLog == {hist[i][1] : i \in 1..Len(hist)}

-----------------------------------------------------------------------------
(* C7 (as stated): replaying an undamaged log returns exactly the pairs    *)
(* that were appended, in order, with the same keys and values.            *)
C7_RoundTripAsStated ==
    (ret.op = "replay" /\ dmg = NoDamage) => (ret.raised = None /\ ret.out = hist)

(* C7 (amended): replaying an undamaged log, through the same WAL object   *)
(* or one opened later on the same path, returns one pair per appended     *)
(* pair, in order, with the same key and the same value, except that a     *)
(* pair appended with the empty string as value comes back with no value.  *)
C7_RoundTrip ==
    (ret.op = "replay" /\ dmg = NoDamage) =>
        (ret.raised = None /\ ret.out = AsReplayed(hist))

C7_Witness ==
    /\ ret.op = "replay"
    /\ dmg = NoDamage
    /\ ~walOpen
    /\ Len(hist) = 3
    /\ hist[1][1] # hist[2][1]
    /\ hist[1][2] # <<>>
    /\ hist[3][2] = <<>>
    /\ Len(ret.out) = 3

(* C8: on a log cut short inside a record, or with a record whose checksum *)
(* no longer matches, replay returns without raising, and returns exactly  *)
(* the records that precede the damaged one.                               *)
C8_StopsAtBoundary ==
    (ret.op = "replay" /\ dmg.kind # "none") =>
        (ret.raised = None /\ ret.out = SubSeq(AsReplayed(hist), 1, GoodRecords))

(* C9: with one byte of a record's key or value changed, replay returns    *)
(* the records before that record as it returned them from the undamaged   *)
(* log, and neither that record nor any later one.                         *)
C9_ChecksumSensitivity ==
    (ret.op = "replay" /\ dmg.kind = "flipped" /\ RegionAt(dmg.at) \in {"key", "value"}) =>
        (ret.raised = None /\ ret.out = SubSeq(AsReplayed(hist), 1, RecordAt(dmg.at) - 1))

C9_Witness ==
    /\ ret.op = "replay"
    /\ dmg.kind = "flipped"
    /\ Len(hist) = 3
    /\ RecordAt(dmg.at) = 2
    /\ RegionAt(dmg.at) = "value"
    /\ ret.raised = None
    /\ Len(ret.out) = 1

-----------------------------------------------------------------------------
(* The value get is to return: the memtable's, else that of the newest     *)
(* cached file that holds the key, else None.                              *)
Expected(key) ==
    IF mem[key] # None THEN mem[key]
    ELSE NewestFileValue(Descending(DOMAIN cache), key)

(* C1: between operations, after any sets, flushes and restarts, get(k) is *)
(* the value of the most recent set(k, v), and None for a key never set.   *)
(* Stated here for the runs in which no write of a file pair failed and    *)
(* the log holds no empty value.                                           *)
C1_Dictionary ==
    (pc = "idle" /\ NoFailedWrite /\ NonEmptyLog) =>
        \A k \in Keys : EngineGet(mem, cache, k) = ref[k]

(* C2 (as stated): after keys are set without any flush and the engine is *)
(* restarted, the memtable has one entry per key set and get returns the   *)
(* last value set for each.                                                *)
C2_RecoveryAsStated ==
    (pc = "idle" /\ ret.op = "open" /\ NoFlushYet) =>
        /\ ret.raised = None
        /\ MemLen(mem) = Cardinality(KeysInLog)
        /\ \A k \in KeysInLog : EngineGet(mem, cache, k) = ref[k]

(* C2 (amended): while no flush has happened and every value set is a      *)
(* non-empty string, between operations (after any number of restarts and  *)
(* of sets after them) the memtable has exactly one entry per key set and  *)
(* get returns the last value set for each key, None for the others.       *)
C2_Recovery ==
    (pc = "idle" /\ NoFlushYet /\ NonEmptyLog) =>
        /\ ret.op = "open" => ret.raised = None
        /\ MemLen(mem) = Cardinality(KeysInLog)
        /\ \A k \in Keys : EngineGet(mem, cache, k) = ref[k]

C2_Witness ==
    /\ pc = "idle"
    /\ ret.op = "open"
    /\ NoFlushYet
    /\ NonEmptyLog
    /\ Len(hist) = 3
    /\ MemLen(mem) = 2
    /\ mem[<<97>>] = <<50>>

(* C3: when a set returns after the flush it triggered at capacity, the    *)
(* memtable is empty, a sorted file is registered, and get returns the     *)
(* value of every key set.                                                 *)
C3_AutoFlush ==
    (pc = "idle" /\ ret.op = "set" /\ ret.flushed) =>
        /\ MemLen(mem) = 0
        /\ DOMAIN cache # {}
        /\ \A k \in Keys : ref[k] # None => EngineGet(mem, cache, k) = ref[k]

(* C4: when a flush of a non-empty memtable returns, the memtable is       *)
(* empty, the log file is empty and replays to nothing, and get still      *)
(* returns the value of every key that was in the memtable.                *)
C4_FlushClears ==
    (pc = "idle" /\ ret.op = "flush" /\ ret.flushed) =>
        /\ MemLen(mem) = 0
        /\ wal = <<>>
        /\ WalReplay(wal).entries = <<>>
        /\ \A k \in Keys : ref[k] # None => EngineGet(mem, cache, k) # None

(* C5: between operations get(k) is the memtable's value for k if it has   *)
(* one, else the value in the most recently created cached file that holds *)
(* k, else None.  Stated for the runs in which no file write failed.       *)
C5_Precedence ==
    (pc = "idle" /\ NoFailedWrite) =>
        \A k \in Keys : EngineGet(mem, cache, k) = Expected(k)

(* C6: in every state, also inside set, each entry of the memtable has a   *)
(* record in the log file or a line in a complete sorted file.             *)
InLog(key, value) ==
    LET entries == WalReplay(wal).entries
    IN  \E i \in 1..Len(entries) :
            entries[i] = <<key, IF value = <<>> THEN None ELSE value>>

InFile(key, value) ==
    \E t \in DOMAIN disk : disk[t].marker /\ FileValue(disk[t], key) = value

C6_DurableBeforeVisible ==
    \A k \in Keys : mem[k] # None => (InLog(k, mem[k]) \/ InFile(k, mem[k]))

C6_Witness ==
    /\ pc = "set_memtable"
    /\ arg.key = <<233>>
    /\ mem[<<233>>] = None
    /\ mem[<<97>>] # None
    /\ InLog(arg.key, arg.value)

(* C10: a step inside an operation that shortens the log or empties the    *)
(* memtable is taken only when the file pair of this flush is complete on  *)
(* disk and holds the memtable's entries, one line each in key order; and  *)
(* the step in which the write fails raises the error and leaves the       *)
(* memtable, the log and the file cache as they were.                      *)
Written ==
    /\ arg.timestamp \in DOMAIN disk
    /\ disk[arg.timestamp].marker
    /\ LinesOf(disk[arg.timestamp].data) = GetSortedItems(mem)

C10_Step ==
    /\ (pc # "idle" /\ (Len(wal') < Len(wal) \/ MemLen(mem') < MemLen(mem))) => Written
    /\ (pc = "flush_write" /\ pc' = "idle") =>
           (ret'.raised = IOError /\ UNCHANGED <<mem, wal, cache>>)

C10_ClearAfterWrite == [][C10_Step]_vars

C10_Witness ==
    /\ pc = "idle"
    /\ ret.raised = IOError
    /\ Len(hist) = 2
    /\ wal # <<>>
    /\ MemLen(mem) = 2
    /\ DOMAIN cache = {}

(* C11: a flush called while the memtable is empty returns at once and     *)
(* leaves the storage directory, the file cache, the log file and the      *)
(* memtable as they were.                                                  *)
C11_Step ==
    (FlushCall /\ MemLen(mem) = 0) =>
        /\ UNCHANGED <<disk, cache, wal, mem>>
        /\ pc' = "idle"
        /\ ret'.op = "flush" /\ ret'.raised = None

C11_EmptyFlushNoOp == [][C11_Step]_vars

C11_Witness ==
    /\ pc = "idle"
    /\ ret.op = "flush" /\ ~ret.flushed
    /\ MemLen(mem) = 0
    /\ wal # <<>>

(* C12: when a set returns without flushing, after at least one flush, the *)
(* memtable holds exactly the keys set since the last flush, the log       *)
(* replays to exactly the writes since that flush, in order, and get       *)
(* returns the last value set for every key, flushed or not.  Stated for   *)
(* the runs in which no file write failed and no empty value was set       *)
(* since the flush.                                                        *)
C12_FreshCycle ==
    (pc = "idle" /\ ret.op = "set" /\ ~ret.flushed /\ ret.raised = None
        /\ DOMAIN cache # {} /\ NoFailedWrite /\ NonEmptyLog
        /\ Cardinality(KeysInLog) < capacity) =>
        /\ MemLen(mem) = Cardinality(KeysInLog)
        /\ WalReplay(wal).entries = hist
        /\ \A k \in Keys : ref[k] # None => EngineGet(mem, cache, k) = ref[k]

(* C13: a reader constructed on a file pair that SSTableWriter.write wrote  *)
(* completely returns, for every key, the value written for it, None for a *)
(* key that was not written, and raises nothing.                           *)
C13_ReaderLookup ==
    \A t \in DOMAIN cache :
        disk[t].marker =>
            \A k \in Keys : ReaderGet(cache[t], k) = FileValue(disk[t], k)

(* C14: in every filter that was constructed, not_contains is false for    *)
(* every key that has been added, however many keys were added after it.   *)
(* Stated for the filters of a positive capacity and an error rate         *)
(* strictly between 0 and 1.                                               *)
C14_NoFalseNegatives ==
    (bloom.constructed /\ bloom.n >= 1 /\ bloom.p > 0 /\ bloom.p < 1000) =>
        \A k \in bloom.added : NotContainsFrom(bloom.filter, k, 0) = [out |-> FALSE, raised |-> None]

(* C19: constructing a BloomFilter with a capacity that is not positive,   *)
(* or with an error rate that is not strictly between 0 and 1, raises.     *)
C19_InvalidRejected ==
    (ret.op = "bloom_init" /\ (bloom.n <= 0 \/ bloom.p <= 0 \/ bloom.p >= 1000)) =>
        ret.raised # None

(* The value of the last pair of pairs that sets key, None if none does.   *)
LastSet(pairs, key) ==
    LET at == {i \in 1..Len(pairs) : pairs[i][1] = key}
    IN  IF at = {} THEN None
        ELSE pairs[CHOOSE i \in at : \A j \in at : j <= i][2]

(* C15: after any sequence of sets, get_sorted_items is the dict's items   *)
(* sorted: each key that was set exactly once, in strictly ascending       *)
(* order, with the value last set for it; the call leaves the memtable as  *)
(* it was, so that a second call returns the same; and get returns the     *)
(* value last set for a key, None for a key never set.                     *)
C15_SortLaw ==
    LET items == GetSortedItems(mem)
    IN  /\ items = Sorted(DictOf(hist))
        /\ \A i, j \in 1..Len(items) : i < j => StrLess(items[i][1], items[j][1])
        /\ {items[i][1] : i \in 1..Len(items)} = KeysInLog
        /\ \A i \in 1..Len(items) : items[i][2] = LastSet(hist, items[i][1])
        /\ \A k \in Keys : MemGet(mem, k) = LastSet(hist, k)
        /\ ret.op = "get_sorted_items" => ret.out = items
        /\ ret.op = "get" => ret.out = LastSet(hist, ret.key)

C15_Witness ==
    /\ ret.op = "get_sorted_items"
    /\ hist = <<<<<<233>>, <<49>>>>, <<<<97>>, <<49>>>>, <<<<97>>, <<50>>>>>>
    /\ ret.out = <<<<<<97>>, <<50>>>>, <<<<233>>, <<49>>>>>>

(* C16: right after clear the memtable has length 0, get returns None for  *)
(* every key and get_sorted_items is empty.                                *)
C16_ClearDiscards ==
    ret.op = "clear" =>
        /\ MemLen(mem) = 0
        /\ \A k \in Keys : MemGet(mem, k) = None
        /\ GetSortedItems(mem) = <<>>

(* C17: after a restart, a key whose last record in the replayed log has   *)
(* no value is not in the memtable, and a key whose last record has a      *)
(* value is in the memtable with that value.                               *)
C17_TombstoneDeletes ==
    (pc = "idle" /\ ret.op = "open" /\ ret.raised = None) =>
        LET entries == WalReplay(wal).entries
        IN  \A k \in Keys : MemGet(mem, k) = LastSet(entries, k)

(* C18: a set that ends at its first statement, because wal.append raised, *)
(* returns that exception to its caller and leaves the memtable, the file  *)
(* cache and the storage directory as they were; no flush is started.      *)
C18_Step ==
    (pc = "idle" /\ sets' = sets + 1 /\ pc' = "idle") =>
        /\ ret'.op = "set"
        /\ ret'.raised \in {IOError, ValueError}
        /\ UNCHANGED <<mem, cache, disk, clock>>

C18_FailedAppend == [][C18_Step]_vars

C18_Witness ==
    /\ pc = "idle"
    /\ ret.op = "set" /\ ret.raised = IOError
    /\ dmg.kind = "append_failed"
    /\ MemLen(mem) = capacity - 1
    /\ mem[ret.key] = None
    /\ Len(wal) > dmg.at

(* C20: when a construction of the engine has returned, the file cache has *)
(* a reader for exactly the data files that have an index file, and get    *)
(* returns a value for every key that a loaded file holds.                 *)
C20_StartupLoads ==
    (pc = "idle" /\ ret.op = "open" /\ ret.raised = None) =>
        /\ DOMAIN cache = {t \in DOMAIN disk : disk[t].has_index}
        /\ \A t \in DOMAIN cache, k \in Keys :
               FileValue(disk[t], k) # None =>
                   EngineGet(mem, cache, k) \notin {None, AttributeError}

-----------------------------------------------------------------------------
(* C21: WAL.close may be called any number of times in a row: no call      *)
(* raises, the handle stays closed, and the log file keeps its content, so *)
(* that a replay of the same path (by this object or by a WAL opened       *)
(* later) returns the pairs that were appended.                            *)
C21_CloseIdempotent ==
    (closes >= 1 /\ dmg = NoDamage) =>
        /\ ~walOpen
        /\ (ret.op = "close" => ret.raised = None)
        /\ wal = LogOf(hist)
        /\ WalReplay(wal) = [entries |-> AsReplayed(hist), raised |-> None]

C21_Witness ==
    /\ closes >= 2
    /\ dmg = NoDamage
    /\ Len(hist) >= 2
    /\ ret.op = "replay"
    /\ ret.out = AsReplayed(hist)

-----------------------------------------------------------------------------
(* SSTableWriter and SSTableReader on their own: a writer is built with a  *)
(* sparsity, writes the sorted items of a dictionary once, a reader is     *)
(* built on the pair and asked for keys.  The values are "1", "e-acute"    *)
(* (two bytes) and "1\n2".                                                 *)

Sparsities == 1..(Sparsity + 1)
SstValues == {<<49>>, <<233>>, <<49, 10, 50>>}

(* The keys a reader is asked for: the keys of the items and "z", which   *)
(* is in no file.                                                          *)
LookupKeys == Keys \cup {<<122>>}

InitSst == Init /\ capacity = 3

(* SSTableWriter.__init__                                                  *)
SstNewWriterOp(n) ==
    /\ DOMAIN disk = {}
    /\ sparsity_index' = n
    /\ ret' = Returned("writer", None, None, FALSE)
    /\ UNCHANGED <<wal, walOpen, mem, disk, cache, clock, capacity, ref, sets, pc, arg, hist, dmg,
                   bloom, closes, opens, db_folder, elsewhere>>

(* SSTableWriter.write(sorted(data.items())): BloomFilter(capacity=0)      *)
(* raises before a file is opened.                                         *)
SstWriteOp(data) ==
    /\ DOMAIN disk = {}
    /\ IF MemLen(data) = 0
       THEN /\ ret' = Raised("write", None, ZeroDivisionError)
            /\ UNCHANGED <<mem, disk>>
       ELSE /\ mem' = data
            /\ disk' = (clock :> WriterWrite(GetSortedItems(data), sparsity_index))
            /\ ret' = Returned("write", None, None, FALSE)
    /\ UNCHANGED <<wal, walOpen, cache, clock, capacity, ref, sets, pc, arg, hist, dmg, bloom,
                   closes, sparsity_index, opens, db_folder, elsewhere>>

(* SSTableReader.__init__ on the pair                                      *)
SstReaderInitOp ==
    /\ clock \in DOMAIN disk
    /\ DOMAIN cache = {}
    /\ cache' = (clock :> ReaderInit(disk[clock]))
    /\ ret' = Returned("reader", None, None, FALSE)
    /\ UNCHANGED <<wal, walOpen, mem, disk, clock, capacity, ref, sets, pc, arg, hist, dmg, bloom,
                   closes, sparsity_index, opens, db_folder, elsewhere>>

(* SSTableReader.get                                                       *)
SstGetOp(key) ==
    /\ clock \in DOMAIN cache
    /\ LET steps == ReaderGetSteps(cache[clock], key)
       IN  ret' = IF steps.raised # None
                  THEN Raised("reader_get", key, steps.raised)
                  ELSE Returned("reader_get", key, steps.out, FALSE)
    /\ UNCHANGED <<wal, walOpen, mem, disk, cache, clock, capacity, ref, sets, pc, arg, hist, dmg,
                   bloom, closes, sparsity_index, opens, db_folder, elsewhere>>

NextSst ==
    \/ \E n \in Sparsities : SstNewWriterOp(n)
    \/ \E data \in [Keys -> SstValues \cup {None}] : SstWriteOp(data)
    \/ SstReaderInitOp
    \/ \E key \in LookupKeys : SstGetOp(key)

SpecSst == InitSst /\ [][NextSst]_vars

-----------------------------------------------------------------------------
(* The lines of a data file: the bytes between newlines.                   *)
RECURSIVE SplitLines(_)
SplitLines(data) ==
    IF data = <<>> THEN <<>>
    ELSE IF \E i \in 1..Len(data) : data[i] = NEWLINE
    THEN LET n == FirstIndex(data, NEWLINE)
         IN  <<SubSeq(data, 1, n - 1)>> \o SplitLines(SubSeq(data, n + 1, Len(data)))
    ELSE <<data>>

(* The bytes of a line before its first tab, the whole line if it has none.*)
KeyBytes(line) ==
    IF \E i \in 1..Len(line) : line[i] = TAB
    THEN SubSeq(line, 1, FirstIndex(line, TAB) - 1)
    ELSE line

(* C22: the data file of a written pair has one line for each key of the   *)
(* memtable it was written from and no other line, the line of a key holds *)
(* the key, a tab and the key's value in the memtable, and the keys of the *)
(* lines increase strictly from line to line.                              *)
C22_FlushSnapshot ==
    \A t \in DOMAIN disk :
        disk[t].marker =>
            LET lines == SplitLines(disk[t].data)
            IN  /\ Len(lines) = MemLen(mem)
                /\ \A k \in Keys :
                       mem[k] # None =>
                           Cardinality({i \in 1..Len(lines) :
                               lines[i] = Utf8Encode(k) \o <<TAB>> \o Utf8Encode(mem[k])}) = 1
                /\ \A i \in 1..Len(lines), j \in 1..Len(lines) :
                       i < j => StrLess(KeyBytes(lines[i]), KeyBytes(lines[j]))

-----------------------------------------------------------------------------
(* C23: when a flush has written its file pair and is about to clear the   *)
(* memtable or the log, the reader of the new pair is already in the file  *)
(* cache.                                                                  *)
C23_RegisterBeforeClear ==
    pc \in {"flush_clear_memtable", "flush_clear_wal"} => arg.timestamp \in DOMAIN cache

-----------------------------------------------------------------------------
(* The engine under a wall clock that can be set back: time.time() is the  *)
(* system's time of day, and flush reads it once for the name of the pair. *)
ClockSetBack(t) ==
    /\ t < clock
    /\ clock' = t
    /\ UNCHANGED <<wal, walOpen, mem, disk, cache, capacity, ref, sets, pc, arg, ret, hist, dmg,
                   bloom, closes, sparsity_index, opens, db_folder, elsewhere>>

NextClock ==
    \/ \E kv \in Inputs : SetAppend(kv[1], kv[2])
    \/ SetMemtable
    \/ FlushCall
    \/ FlushWrite
    \/ FlushClearMemtable
    \/ FlushClearWal
    \/ FlushRegister
    \/ Restart
    \/ \E t \in 1..MaxFlushes : ClockSetBack(t)

SpecClock == Init /\ [][NextClock]_vars

(* C24: the timestamp a flush names its pair with is greater than the      *)
(* timestamp of every file in the directory, so that no name is taken      *)
(* twice and the descending order of the names is the order from the pair  *)
(* written last to the pair written first.                                 *)
C24_Step ==
    (pc = "flush_write" /\ pc' = "flush_clear_memtable") =>
        \A t \in DOMAIN disk : t < arg'.timestamp

C24_FreshTimestamps == [][C24_Step]_vars

-----------------------------------------------------------------------------
(* C25: no step of set, flush or recovery changes or removes a file of the *)
(* directory or an entry of the file cache, and the step that completes a  *)
(* flush adds exactly one entry to the cache.                              *)
C25_Step ==
    /\ \A t \in DOMAIN disk : t \in DOMAIN disk' /\ disk'[t] = disk[t]
    /\ \A t \in DOMAIN cache : t \in DOMAIN cache' /\ cache'[t] = cache[t]
    /\ (pc = "flush_register" /\ pc' = "idle") =>
           Cardinality(DOMAIN cache') = Cardinality(DOMAIN cache) + 1

C25_FilesImmutable == [][C25_Step]_vars

-----------------------------------------------------------------------------
(* The number of bytes of the lines of the first n items.                  *)
RECURSIVE LineStart(_, _)
LineStart(items, n) ==
    IF n = 0 THEN 0
    ELSE LineStart(items, n - 1)
             + Len(Utf8Encode(items[n][1])) + 1 + Len(Utf8Encode(items[n][2])) + 1

(* C26: written with sparsity N from a list of n items, the index file has *)
(* one checkpoint for each position 0, N, 2N, ... below n and no other, in *)
(* that order; the checkpoint of position i holds the key of item i and    *)
(* the number of bytes of the lines of the items before it, which is where *)
(* the item's line starts in the data file; and the marker line follows.   *)
C26_WriterCheckpoints ==
    \A t \in DOMAIN disk :
        LET items == GetSortedItems(mem)
            index == disk[t].index
            positions == {i \in 0..(Len(items) - 1) : i % sparsity_index = 0}
        IN  /\ Len(index) = Cardinality(positions)
            /\ \A j \in 1..Len(index) :
                   LET i == (j - 1) * sparsity_index
                       start == LineStart(items, i)
                       line == Line(items[i + 1][1], items[i + 1][2])
                   IN  /\ i \in positions
                       /\ index[j] = <<items[i + 1][1], start>>
                       /\ SubSeq(disk[t].data, start + 1, start + Len(line)) = line
            /\ disk[t].marker

C26_Witness ==
    /\ clock \in DOMAIN disk
    /\ sparsity_index = 2
    /\ mem = (<<97>> :> <<233>>) @@ (<<98>> :> <<49>>) @@ (<<233>> :> <<49, 10, 50>>)
    /\ disk[clock].index = <<<<<<97>>, 0>>, <<<<233>>, 9>>>>
    /\ disk[clock].marker

-----------------------------------------------------------------------------
(* C27: a reader constructed on a written pair has, as its sparse index,   *)
(* the checkpoints of the pair's index file in their order, and it has a   *)
(* bloom filter.                                                           *)
C27_IndexRoundTrip ==
    \A t \in DOMAIN cache :
        /\ cache[t].sparse_index = disk[t].index
        /\ cache[t].has_bloom

(* The offset of the last checkpoint whose key is not above key, 0 if      *)
(* there is none.                                                          *)
RightmostCheckpoint(index, key) ==
    LET below == {j \in 1..Len(index) : ~StrLess(key, index[j][1])}
    IN  IF below = {} THEN 0
        ELSE index[CHOOSE j \in below : \A i \in below : i <= j][2]

(* The reader's get has just been asked for a key its filter lets through. *)
PassedFilter ==
    /\ ret.op = "reader_get"
    /\ clock \in DOMAIN cache
    /\ cache[clock].has_bloom
    /\ ~NotContains(cache[clock].bloom_filter, ret.key)

(* C28: a get that passes the filter computes, as the offset to start the  *)
(* scan at, the offset of the rightmost checkpoint of the index file whose *)
(* key is at most the key asked for, and 0 when the key precedes every     *)
(* checkpoint.                                                             *)
C28_ScanStart ==
    PassedFilter =>
        ReaderGetSteps(cache[clock], ret.key).start_offset
            = RightmostCheckpoint(disk[clock].index, ret.key)

C30_BloomSafe ==
    /\ \A t \in DOMAIN disk :
           \A k \in Keys : mem[k] # None => ~NotContains(disk[t].bloom, k)
    /\ \A t \in DOMAIN cache :
           /\ cache[t].has_bloom
           /\ \A k \in Keys : mem[k] # None => ~NotContains(cache[t].bloom_filter, k)
           /\ (ret.op = "reader_get" /\ NotContains(cache[t].bloom_filter, ret.key)) =>
                  /\ ret.raised = None
                  /\ ret.out = None
                  /\ ReaderGetSteps(cache[t], ret.key).lines = 0
                  /\ (ret.key \in Keys => mem[ret.key] = None)

C30_Witness ==
    /\ clock \in DOMAIN cache
    /\ mem[<<97>>] # None
    /\ ret.op = "reader_get"
    /\ ret.key = <<122>>
    /\ NotContains(cache[clock].bloom_filter, ret.key)
    /\ ret.out = None
    /\ ret.raised = None

-----------------------------------------------------------------------------
(* The engine with crashes: the process stops between two statements of    *)
(* set or flush, or between operations, and LSMEngine.__init__ runs on the *)
(* same directories.  A crash inside SSTableWriter.write leaves no file,   *)
(* the data file alone, or the pair without the marker.  Every append has  *)
(* reached the file: the log is opened unbuffered and fsynced.             *)

BadCrash(opened) ==
    /\ Len(opens) < MaxCrashes
    /\ opened = "none"
    /\ wal' = <<>>
    /\ hist' = <<>>
    /\ mem' = EmptyDict
    /\ cache' = ScanDirectory(disk)
    /\ walOpen' = TRUE
    /\ closes' = 0
    /\ pc' = "idle"
    /\ arg' = NoArg
    /\ ret' = Returned("open", None, None, FALSE)
    /\ opens' = Append(opens, Len(hist))
    /\ UNCHANGED <<disk, clock, capacity, sets, ref, dmg, bloom, sparsity_index, db_folder,
                   elsewhere>>

Crash(opened) ==
    /\ Len(opens) < MaxCrashes
    /\ opened \in IF pc = "flush_write" /\ \A t \in DOMAIN disk : disk[t].marker
                  THEN {"none", "data", "pair"} ELSE {"none"}
    /\ CASE opened = "none" -> disk' = disk /\ clock' = clock
         [] opened = "data" ->
              disk' = (clock :> DataOnly(MemLen(mem))) @@ disk /\ clock' = clock + 1
         [] opened = "pair" ->
              disk' = (clock :> EmptyPair(MemLen(mem))) @@ disk /\ clock' = clock + 1
    /\ LET entries == WalReplay(wal)
       IN  IF entries.raised # None
           THEN /\ mem' = EmptyDict
                /\ cache' = <<>>
                /\ walOpen' = FALSE
                /\ closes' = 1
                /\ ret' = Raised("open", None, entries.raised)
           ELSE /\ mem' = RecoverFromWal(entries.entries)
                /\ cache' = ScanDirectory(disk')
                /\ walOpen' = TRUE
                /\ closes' = 0
                /\ ret' = Returned("open", None, None, FALSE)
    /\ pc' = "idle"
    /\ arg' = NoArg
    /\ opens' = Append(opens, Len(hist))
    /\ UNCHANGED <<wal, capacity, sets, ref, hist, dmg, bloom, sparsity_index, db_folder,
                   elsewhere>>

(* The pairs set in the runs with crashes: "a" with "" and "1", the second *)
(* key with "1".                                                           *)
CrashInputs == {<<<<97>>, <<>>>>, <<<<97>>, <<49>>>>, <<<<233>>, <<49>>>>}

NextCrash ==
    \/ \E kv \in CrashInputs : SetAppend(kv[1], kv[2])
    \/ SetMemtable
    \/ FlushCall
    \/ FlushWrite
    \/ FlushClearMemtable
    \/ FlushClearWal
    \/ FlushRegister
    \/ \E opened \in {"none", "data", "pair"} : Crash(opened)

InitCrash == Init /\ capacity = 3

SpecCrash == InitCrash /\ [][NextCrash]_vars

(* The value of the last pair of pairs that has key and a non-empty value, *)
(* None if there is none.                                                  *)
RECURSIVE LastValue(_, _)
LastValue(pairs, key) ==
    IF pairs = <<>> THEN None
    ELSE LET last == pairs[Len(pairs)]
         IN  IF last[1] = key /\ last[2] # <<>> THEN last[2]
             ELSE LastValue(SubSeq(pairs, 1, Len(pairs) - 1), key)

(* C31 (as stated): opening an engine after a crash leaves the log file as *)
(* it was and raises nothing, and the new memtable holds, for every key,   *)
(* the value of the last write of the key since the log was last empty:    *)
(* what earlier openings recovered and what was written after them.        *)
C31_StepAsStated ==
    Len(opens') > Len(opens) =>
        /\ wal' = wal
        /\ ret'.raised = None
        /\ \A k \in Keys : mem'[k] = LastSet(hist', k)

C31_Step ==
    Len(opens') > Len(opens) =>
        /\ wal' = wal
        /\ wal' = LogOf(hist')
        /\ ret'.raised = None
        /\ \A k \in Keys : mem'[k] = LastValue(hist', k)

-----------------------------------------------------------------------------
(* C32: between operations the memtable holds, for every key, the value of *)
(* the last entry that WAL.replay returns for the key, and no entry for a  *)
(* key that replay does not return.                                        *)
C32_WalMirrorsMemtable ==
    (pc = "idle" /\ walOpen) =>
        LET entries == WalReplay(wal)
        IN  /\ entries.raised = None
            /\ \A k \in Keys : mem[k] = LastSet(entries.entries, k)

(* C33: when a set has returned, the memtable has fewer entries than the   *)
(* capacity.                                                               *)
C33_BelowCapacity ==
    (pc = "idle" /\ ret.op = "set" /\ ret.raised = None) => MemLen(mem) < capacity

(* C35: between operations the log holds fewer records than the capacity.  *)
C35_WalBounded ==
    (pc = "idle" /\ walOpen) =>
        LET entries == WalReplay(wal)
        IN  /\ entries.raised = None
            /\ Len(entries.entries) < capacity

(* C34: a stop of the process at any step of flush loses nothing: the      *)
(* engine opened next on the same directories is constructed, and get(k)   *)
(* is the last acknowledged value of every key k.  Stated here for the     *)
(* narrowest case: the first flush of the store, called on its own, every  *)
(* acknowledged value non-empty, and only the keys that have been set.     *)
C34_Step ==
    (/\ Len(opens') > Len(opens)
     /\ pc \in {"flush_write", "flush_clear_memtable", "flush_clear_wal", "flush_register"}
     /\ Caller = "flush"
     /\ DOMAIN disk \subseteq {arg.timestamp}
     /\ \A k \in Keys : ref[k] # <<>>)
        => /\ ret'.raised = None
           /\ \A k \in Keys : ref[k] # None => EngineGet(mem', cache', k) = ref[k]
C34_CrashInFlushLosesNothing == [][C34_Step]_vars

(* C36: get is read-only: a call of get, for a key that is present or      *)
(* absent, leaves the memtable, the log, the file cache and the sorted     *)
(* files as they were, and a get of the same key that follows another with *)
(* no set, flush or restart between them has the same outcome.             *)
C36_Step ==
    (pc = "idle" /\ pc' = "idle" /\ ret'.op = "get")
        => /\ UNCHANGED <<mem, wal, cache, disk>>
           /\ (ret.op = "get" /\ ret.key = ret'.key) => ret' = ret
C36_GetReadOnly == [][C36_Step]_vars

(* a get has returned the memtable's value of a key while the log, the     *)
(* cache and the directory all hold something                              *)
C36_Witness ==
    /\ pc = "idle"
    /\ ret.op = "get"
    /\ ret.raised = None
    /\ ret.out # None
    /\ ret.out = mem[ret.key]
    /\ wal # <<>>
    /\ DOMAIN cache # {}
    /\ DOMAIN disk # {}

-----------------------------------------------------------------------------
(* Two storage directories, A and B, and one log: LSMEngine.__init__ takes *)
(* db_folder for the sorted files and builds its log with WAL(), whose     *)
(* path is the default wal_dir/wal.bin whatever db_folder is.  One engine  *)
(* is open at a time; opening an engine on a directory replays the log     *)
(* into a new memtable and scans that directory.  disk holds the files of  *)
(* the open engine's directory, elsewhere those of the other one.  Writes  *)
(* are made only through an engine opened on A.                            *)

Folders == {"A", "B"}

(* engine.wal.close(), then LSMEngine(db_folder=folder)                     *)
OpenOn(folder) ==
    /\ pc = "idle"
    /\ db_folder' = folder
    /\ disk' = IF folder = db_folder THEN disk ELSE elsewhere
    /\ elsewhere' = IF folder = db_folder THEN elsewhere ELSE disk
    /\ LET entries == WalReplay(wal)
       IN  IF entries.raised # None
           THEN /\ mem' = EmptyDict
                /\ cache' = <<>>
                /\ walOpen' = FALSE
                /\ closes' = 1
                /\ ret' = Raised("open", None, entries.raised)
           ELSE /\ mem' = RecoverFromWal(entries.entries)
                /\ cache' = ScanDirectory(disk')
                /\ walOpen' = TRUE
                /\ closes' = 0
                /\ ret' = Returned("open", None, None, FALSE)
    /\ UNCHANGED <<wal, clock, capacity, sets, ref, pc, arg, hist, dmg, bloom, sparsity_index, opens>>

NextDirs ==
    \/ \E kv \in Inputs : db_folder = "A" /\ SetAppend(kv[1], kv[2])
    \/ SetMemtable
    \/ FlushCall
    \/ FlushWrite
    \/ FlushClearMemtable
    \/ FlushClearWal
    \/ FlushRegister
    \/ \E folder \in Folders : OpenOn(folder)

SpecDirs == Init /\ [][NextDirs]_vars

(* C37: storage directories are isolated: every write having been made     *)
(* through an engine opened on A, an engine opened on B has recovered      *)
(* nothing into its memtable and no flush has put a file into B.           *)
C37_DirectoriesIsolated ==
    /\ (db_folder = "B" /\ pc = "idle") => mem = EmptyDict
    /\ db_folder = "B" => DOMAIN disk = {}
    /\ db_folder = "A" => DOMAIN elsewhere = {}

=============================================================================
